---------------------------- MODULE Spec2Model ----------------------------
(***************************************************************************)
(* examples/python-integration/main.py: a Python script that calls the     *)
(* vexy-svgo native library through ctypes.                                *)
(*                                                                         *)
(* The script is modelled statement by statement.  The native library      *)
(* (vexy_svgo_optimize_default, vexy_svgo_free_result) is not part of the  *)
(* file; it is modelled from the written contract of the result record.    *)
(*                                                                         *)
(* Bytes are integers 0..255, byte strings are sequences of them.          *)
(*                                                                         *)
(* Two specifications:                                                     *)
(*   SpecScript  every caller runs the script from its first statement;    *)
(*   Spec        every caller runs the consumer block, lines 21-28, with   *)
(*               the declarations of lines 1-19 in effect, on an input     *)
(*               drawn from Inputs.                                        *)
(***************************************************************************)
EXTENDS Integers, Sequences, FiniteSets, TLC

\* Number of callers (threads of one process sharing the library's heap).
NCallers == 2

Callers == 1..NCallers

\* The heap: every call allocates one record and one nested buffer.
MaxAddr == 2 * NCallers

Addr == 1..MaxAddr

\* The null pointer.
NULL == 0

(***************************************************************************)
(* Byte strings of the script and of the test scenarios.                   *)
(***************************************************************************)

\* The literal without its group element: <svg><rect .../></svg>
svg_NoGroup ==
  <<60, 115, 118, 103, 62, 60, 114, 101, 99, 116, 32, 119, 105, 100, 116, 104,
    61, 34, 49, 48, 48, 34, 32, 104, 101, 105, 103, 104, 116, 61, 34, 49, 48,
    48, 34, 47, 62, 60, 47, 115, 118, 103, 62>>

\* main.py line 19:  <svg><g><rect width="100" height="100"/></g></svg>
svg ==
  <<60, 115, 118, 103, 62, 60, 103, 62, 60, 114, 101, 99, 116, 32, 119, 105,
    100, 116, 104, 61, 34, 49, 48, 48, 34, 32, 104, 101, 105, 103, 104, 116,
    61, 34, 49, 48, 48, 34, 47, 62, 60, 47, 103, 62, 60, 47, 115, 118, 103,
    62>>

\* <svg><rect></svg> : the unclosed rect of the malformed scenario
SvgUnclosed ==
  <<60, 115, 118, 103, 62, 60, 114, 101, 99, 116, 62, 60, 47, 115, 118, 103,
    62>>

\* <svg> C3 A9 </svg> 00 x : a two-byte UTF-8 character as text content, and
\* an embedded zero byte behind the document
SvgEmbeddedNul ==
  <<60, 115, 118, 103, 62, 195, 169, 60, 47, 115, 118, 103, 62, 0, 120>>

\* <svg> FF </svg> : not UTF-8
SvgNotUtf8 == <<60, 115, 118, 103, 62, 255, 60, 47, 115, 118, 103, 62>>

\* The arguments the callers pass.
Inputs == {svg, SvgUnclosed, <<>>, SvgEmbeddedNul, SvgNotUtf8}

(***************************************************************************)
(* ctypes conversions.                                                     *)
(***************************************************************************)

\* Index of the first b in s at or after i, 0 when there is none.
IndexOf(s, b, i) ==
  LET at == {j \in i..Len(s) : s[j] = b}
  IN  IF at = {} THEN 0 ELSE CHOOSE j \in at : \A k \in at : j <= k

\* A conversion that loses the last byte of a string without a zero byte.
CharPArg_DropLast(b) ==
  LET z == IndexOf(b, 0, 1)
  IN  IF z = 0 THEN SubSeq(b, 1, Len(b) - 1) ELSE SubSeq(b, 1, z - 1)

\* argtypes = [c_char_p]: the callee receives a null-terminated string, the
\* bytes before the first zero byte.
CharPArg(b) ==
  LET z == IndexOf(b, 0, 1)
  IN  IF z = 0 THEN b ELSE SubSeq(b, 1, z - 1)

\* Python's None, and a bytes object.
None == [isNone |-> TRUE]

Bytes(b) == [isNone |-> FALSE, bytes |-> b]

\* What may lie in memory behind a buffer that has no terminator: a zero
\* byte right away, an ASCII byte then a zero, a non-UTF-8 byte then a zero.
OverRead == {<<>>, <<65>>, <<255>>}

\* A c_char_p field read at buffer cell `cell`: the bytes up to the first
\* zero byte.  The read does not know the buffer's length; past an
\* unterminated buffer it continues into `tail`.
CharPGet(ptr, cell, tail) ==
  IF ptr = NULL THEN None
  ELSE LET z == IndexOf(cell.bytes, 0, 1)
       IN  IF z # 0 THEN Bytes(SubSeq(cell.bytes, 1, z - 1))
           ELSE IF cell.term THEN Bytes(cell.bytes)
           ELSE Bytes(cell.bytes \o tail)

\* Number of continuation bytes a UTF-8 lead byte announces, -1 for a byte
\* that cannot lead.
Utf8Follow(b) ==
  IF b < 128 THEN 0
  ELSE IF b >= 194 /\ b <= 223 THEN 1
  ELSE IF b >= 224 /\ b <= 239 THEN 2
  ELSE IF b >= 240 /\ b <= 244 THEN 3
  ELSE -1

IsCont(b) == b >= 128 /\ b <= 191

\* UnicodeDecodeError: a byte that can neither lead nor continue, a lead
\* byte without its continuation bytes, or a continuation byte no lead byte
\* announces.
DecodeFails(s) ==
  \E i \in 1..Len(s) :
    IF IsCont(s[i])
    THEN ~\E j \in 1..(i - 1) :
            /\ ~IsCont(s[j])
            /\ i - j <= Utf8Follow(s[j])
            /\ \A k \in (j + 1)..i : IsCont(s[k])
    ELSE LET n == Utf8Follow(s[i])
         IN  \/ n = -1
             \/ i + n > Len(s)
             \/ \E k \in 1..n : ~IsCont(s[i + k])

\* The code point of the character whose lead byte is at i.
CodePoint(s, i) ==
  LET n == Utf8Follow(s[i])
      lead == IF n = 0 THEN s[i]
              ELSE IF n = 1 THEN s[i] - 192
              ELSE IF n = 2 THEN s[i] - 224
              ELSE s[i] - 240
  IN  IF n = 0 THEN lead
      ELSE IF n = 1 THEN lead * 64 + (s[i + 1] - 128)
      ELSE IF n = 2 THEN (lead * 64 + (s[i + 1] - 128)) * 64 + (s[i + 2] - 128)
      ELSE ((lead * 64 + (s[i + 1] - 128)) * 64 + (s[i + 2] - 128)) * 64
           + (s[i + 3] - 128)

\* bytes.decode() of bytes that are UTF-8: ASCII bytes are their own code
\* points, a multi-byte character gives one code point.
RECURSIVE decode(_)
decode(s) ==
  LET multi == {i \in 1..Len(s) : s[i] >= 128}
  IN  IF multi = {} THEN s
      ELSE LET i == CHOOSE j \in multi : \A k \in multi : j <= k
           IN  SubSeq(s, 1, i - 1) \o <<CodePoint(s, i)>>
               \o decode(SubSeq(s, i + Utf8Follow(s[i]) + 1, Len(s)))

(***************************************************************************)
(* The result record, main.py lines 11-17.                                 *)
(***************************************************************************)

VexyResult(error_code, data, data_length, original_size, optimized_size, error_message) ==
  [kind |-> "record", error_code |-> error_code, data |-> data,
   data_length |-> data_length, original_size |-> original_size,
   optimized_size |-> optimized_size, error_message |-> error_message]

(***************************************************************************)
(* The native library, from its contract.                                  *)
(***************************************************************************)

\* Error codes of the taxonomy that an input can provoke.
InvalidInput == 1

UnsupportedFormat == 2

\* The message of an error code: "malformed", "unsupported".
ErrorMessage(code) ==
  IF code = InvalidInput
  THEN <<109, 97, 108, 102, 111, 114, 109, 101, 100>>
  ELSE <<117, 110, 115, 117, 112, 112, 111, 114, 116, 101, 100>>

\* The name of a tag: its body up to the first space or slash.
TagName(body) ==
  LET sp == IndexOf(body, 32, 1)
      sl == IndexOf(body, 47, 1)
      e  == IF sp = 0 THEN sl ELSE IF sl = 0 THEN sp
            ELSE IF sp < sl THEN sp ELSE sl
  IN  IF e = 0 THEN body ELSE SubSeq(body, 1, e - 1)

\* Well-formedness from position i on: every tag is terminated, closing tags
\* match, text lies inside the single root element, the root is svg.
RECURSIVE Parse(_, _, _, _)
Parse(s, i, stack, roots) ==
  IF i > Len(s) THEN stack = <<>> /\ roots = 1
  ELSE IF s[i] # 60 THEN stack # <<>> /\ Parse(s, i + 1, stack, roots)
  ELSE LET j == IndexOf(s, 62, i)
       IN  IF j = 0 \/ j = i + 1 THEN FALSE
           ELSE LET body == SubSeq(s, i + 1, j - 1)
                IN  IF body[1] = 47
                    THEN /\ stack # <<>>
                         /\ SubSeq(body, 2, Len(body)) = stack[Len(stack)]
                         /\ Parse(s, j + 1, SubSeq(stack, 1, Len(stack) - 1),
                                  roots)
                    ELSE LET nm == TagName(body)
                         IN  /\ (stack = <<>>) =>
                                  (roots = 0 /\ nm = <<115, 118, 103>>)
                             /\ Parse(s, j + 1,
                                      IF body[Len(body)] = 47 THEN stack
                                      ELSE Append(stack, nm),
                                      IF stack = <<>> THEN roots + 1
                                      ELSE roots)

\* A valid input: a non-empty, UTF-8, well-formed svg document.
Valid(s) == s # <<>> /\ ~DecodeFails(s) /\ Parse(s, 1, <<>>, 0)

\* The default optimisation as far as the contract describes it: group
\* elements without attributes are redundant; <g> and </g> are removed.
RECURSIVE CollapseGroups(_)
CollapseGroups(s) ==
  LET open == {j \in 1..(Len(s) - 2) : SubSeq(s, j, j + 2) = <<60, 103, 62>>}
      close == {j \in 1..(Len(s) - 3) :
                  SubSeq(s, j, j + 3) = <<60, 47, 103, 62>>}
      tags == open \cup close
  IN  IF tags = {} THEN s
      ELSE LET j == CHOOSE a \in tags : \A b \in tags : a <= b
               n == IF j \in open THEN 3 ELSE 4
           IN  SubSeq(s, 1, j - 1)
               \o CollapseGroups(SubSeq(s, j + n, Len(s)))

FreeCell == [kind |-> "free"]

\* A heap buffer: its bytes, and whether a zero byte follows them.
Buffer(bytes, term, owner) ==
  [kind |-> "buf", bytes |-> bytes, term |-> term, owner |-> owner]

FreeAddrs(m) == {a \in Addr : m[a].kind = "free"}

Least(S) == CHOOSE a \in S : \A b \in S : a <= b

\* The allocator hands out the lowest free address.
Malloc(m) == Least(FreeAddrs(m))

\* An optimize that returns a null pointer when the input is rejected.
vexy_svgo_optimize_default_NullOnError(m, arg, caller, term) ==
  LET rp == Malloc(m)
      bp == Least(FreeAddrs(m) \ {rp})
      out == CollapseGroups(arg)
  IN  IF DecodeFails(arg) \/ ~Valid(arg) THEN [mem |-> m, ptr |-> NULL]
      ELSE [mem |-> [m EXCEPT
                       ![rp] = VexyResult(0, bp, Len(out), Len(arg), Len(out),
                                          NULL) @@ [owner |-> caller],
                       ![bp] = Buffer(out, term, caller)],
            ptr |-> rp]

\* optimize: one record and one nested buffer are allocated and every field
\* of the record is set.  arg is the null-terminated input; term says
\* whether the data buffer is followed by a zero byte, which the contract
\* leaves open (error_message is null-terminated).  Returns the new heap and
\* the pointer to the record.
vexy_svgo_optimize_default(m, arg, caller, term) ==
  LET rp == Malloc(m)
      bp == Least(FreeAddrs(m) \ {rp})
      code == IF DecodeFails(arg) THEN UnsupportedFormat
              ELSE IF ~Valid(arg) THEN InvalidInput
              ELSE 0
      out == CollapseGroups(arg)
      rec == IF code = 0
             THEN VexyResult(0, bp, Len(out), Len(arg), Len(out), NULL)
             ELSE VexyResult(code, NULL, 0, Len(arg), 0, bp)
      buf == IF code = 0 THEN Buffer(out, term, caller)
             ELSE Buffer(ErrorMessage(code), TRUE, caller)
  IN  [mem |-> [m EXCEPT ![rp] = rec @@ [owner |-> caller],
                         ![bp] = buf],
       ptr |-> rp]

\* release: a null pointer is a no-op; otherwise the data buffer if present,
\* the error_message buffer if present and the record are freed.  bad reports
\* a free of memory that is not allocated (a double free).
vexy_svgo_free_result(m, ptr) ==
  IF ptr = NULL THEN [mem |-> m, bad |-> FALSE]
  ELSE IF m[ptr].kind # "record" THEN [mem |-> m, bad |-> TRUE]
  ELSE LET nested == {m[ptr].data, m[ptr].error_message} \ {NULL}
       IN  [mem |-> [a \in Addr |->
                       IF a = ptr \/ a \in nested THEN FreeCell ELSE m[a]],
            bad |-> \E a \in nested : m[a].kind # "buf"]

(***************************************************************************)
(* State.                                                                  *)
(***************************************************************************)

VARIABLES
  pc,          \* pc[c]: the line of the statement caller c executes next
  exc,         \* exc[c]: the exception that ended caller c, or "none"
  names,       \* names[c]: the names bound in caller c's namespace
  input,       \* input[c]: the bytes object bound to svg
  result,      \* result[c]: the pointer bound to result
  stdout,      \* stdout[c]: the lines printed, as code points
  log,         \* log[c]: the accesses c made through result, in order
  mem,         \* the library's heap
  doubleFree,  \* memory that was not allocated has been freed
  libPresent,  \* the shared library file exists
  exports      \* the symbols the shared library exports

vars ==
  <<pc, exc, names, input, result, stdout, log, mem, doubleFree, libPresent,
    exports>>

Symbols == {"vexy_svgo_optimize_default", "vexy_svgo_free_result"}

\* The names lines 1-19 bind.
Declared == {"ctypes", "lib", "VexyResult", "svg"}

\* The record behind pointer p is allocated and was returned to caller c.
Live(p, c) == p # NULL /\ mem[p].kind = "record" /\ mem[p].owner = c

\* An access of caller c through result: which, and the record's state then.
Event(op, c) ==
  [op |-> op,
   live |-> result[c] # NULL /\ mem[result[c]].kind = "record",
   own |-> Live(result[c], c)]

\* result.contents: the record at p.  Memory that holds no record reads as
\* any record.
Contents(p) ==
  IF mem[p].kind = "record" THEN {mem[p]}
  ELSE {VexyResult(0, NULL, 0, 0, 0, NULL) @@ [owner |-> 0],
        VexyResult(1, NULL, 0, 0, 0, NULL) @@ [owner |-> 0]}

\* The buffer cell at p; memory that holds no buffer reads as no bytes and
\* no terminator.
BufAt(p) ==
  IF p # NULL /\ mem[p].kind = "buf" THEN mem[p] ELSE Buffer(<<>>, FALSE, 0)

Raise(c, e) == exc' = [exc EXCEPT ![c] = e]

Goto(c, l) == pc' = [pc EXCEPT ![c] = l]

Running(c, l) == pc[c] = l /\ exc[c] = "none"

(***************************************************************************)
(* The consumer block, main.py lines 21-28.                                *)
(***************************************************************************)

\* A call whose result is bound to a name all callers share.
Call_SharedResult(c) ==
  /\ Running(c, "L21")
  /\ \E term \in BOOLEAN :
       LET r == vexy_svgo_optimize_default(mem, CharPArg(input[c]), c, term)
       IN  /\ mem' = r.mem
           /\ result' = [d \in Callers |-> r.ptr]
  /\ names' = [names EXCEPT ![c] = @ \cup {"result"}]
  /\ Goto(c, "L23")
  /\ UNCHANGED <<exc, input, stdout, log, doubleFree, libPresent, exports>>

\* line 21: result = lib.vexy_svgo_optimize_default(svg)
Call(c) ==
  /\ Running(c, "L21")
  /\ \E term \in BOOLEAN :
       LET r == vexy_svgo_optimize_default(mem, CharPArg(input[c]), c, term)
       IN  /\ mem' = r.mem
           /\ result' = [result EXCEPT ![c] = r.ptr]
  /\ names' = [names EXCEPT ![c] = @ \cup {"result"}]
  /\ Goto(c, "L23")
  /\ UNCHANGED <<exc, input, stdout, log, doubleFree, libPresent, exports>>

\* A branch with the test inverted.
Branch_Inverted(c) ==
  /\ Running(c, "L23")
  /\ IF result[c] = NULL
     THEN /\ Raise(c, "ValueError")
          /\ UNCHANGED <<pc, log>>
     ELSE /\ \E rec \in Contents(result[c]) :
               Goto(c, IF rec.error_code # 0 THEN "L24" ELSE "L26")
          /\ log' = [log EXCEPT ![c] = Append(@, Event("error_code", c))]
          /\ UNCHANGED exc
  /\ UNCHANGED <<names, input, result, stdout, mem, doubleFree, libPresent,
                 exports>>

\* line 23: if result.contents.error_code == 0:
Branch(c) ==
  /\ Running(c, "L23")
  /\ IF result[c] = NULL
     THEN /\ Raise(c, "ValueError")
          /\ UNCHANGED <<pc, log>>
     ELSE /\ \E rec \in Contents(result[c]) :
               Goto(c, IF rec.error_code = 0 THEN "L24" ELSE "L26")
          /\ log' = [log EXCEPT ![c] = Append(@, Event("error_code", c))]
          /\ UNCHANGED exc
  /\ UNCHANGED <<names, input, result, stdout, mem, doubleFree, libPresent,
                 exports>>

\* The print of field `field` of the record: the c_char_p read, .decode(),
\* print.  None has no decode (AttributeError); bytes that are not UTF-8
\* raise UnicodeDecodeError.
PrintField(c, field, prefix) ==
  /\ log' = [log EXCEPT ![c] = Append(@, Event(field, c))]
  /\ \E rec \in Contents(result[c]), tail \in OverRead :
       LET p == IF field = "data" THEN rec.data ELSE rec.error_message
           v == CharPGet(p, BufAt(p), tail)
       IN  IF v.isNone
           THEN Raise(c, "AttributeError") /\ UNCHANGED <<pc, stdout>>
           ELSE IF DecodeFails(v.bytes)
           THEN Raise(c, "UnicodeDecodeError") /\ UNCHANGED <<pc, stdout>>
           ELSE /\ stdout' = [stdout EXCEPT ![c] =
                                Append(@, [prefix |-> prefix,
                                           text |-> decode(v.bytes)])]
                /\ Goto(c, "L28")
                /\ UNCHANGED exc
  /\ UNCHANGED <<names, input, result, mem, doubleFree, libPresent, exports>>

\* line 24: print(result.contents.data.decode())
PrintData(c) ==
  /\ Running(c, "L24")
  /\ PrintField(c, "data", "")

\* line 26: print(f"Error: {result.contents.error_message.decode()}")
PrintError(c) ==
  /\ Running(c, "L26")
  /\ PrintField(c, "error_message", "Error: ")

\* A release after which the record is read again.
FreeResult_Reread(c) ==
  /\ Running(c, "L28")
  /\ LET r == vexy_svgo_free_result(mem, result[c])
     IN  /\ mem' = r.mem
         /\ doubleFree' = (doubleFree \/ r.bad)
  /\ log' = [log EXCEPT ![c] = Append(@, Event("release", c))]
  /\ Goto(c, "L23")
  /\ UNCHANGED <<exc, names, input, result, stdout, libPresent, exports>>

\* A script that ends without the release.
FreeResult_NoCall(c) ==
  /\ Running(c, "L28")
  /\ Goto(c, "end")
  /\ UNCHANGED <<exc, names, input, result, stdout, log, mem, doubleFree,
                 libPresent, exports>>

\* line 28: lib.vexy_svgo_free_result(result)
FreeResult(c) ==
  /\ Running(c, "L28")
  /\ LET r == vexy_svgo_free_result(mem, result[c])
     IN  /\ mem' = r.mem
         /\ doubleFree' = (doubleFree \/ r.bad)
  /\ log' = [log EXCEPT ![c] = Append(@, Event("release", c))]
  /\ Goto(c, "end")
  /\ UNCHANGED <<exc, names, input, result, stdout, libPresent, exports>>

Init ==
  /\ pc = [c \in Callers |-> "L21"]
  /\ exc = [c \in Callers |-> "none"]
  /\ names = [c \in Callers |-> Declared]
  /\ input \in [Callers -> Inputs]
  /\ result = [c \in Callers |-> NULL]
  /\ stdout = [c \in Callers |-> <<>>]
  /\ log = [c \in Callers |-> <<>>]
  /\ mem = [a \in Addr |-> FreeCell]
  /\ doubleFree = FALSE
  /\ libPresent = TRUE
  /\ exports = Symbols

Next ==
  \E c \in Callers :
    \/ Call(c)
    \/ Branch(c)
    \/ PrintData(c)
    \/ PrintError(c)
    \/ FreeResult(c)

Spec == Init /\ [][Next]_vars

(***************************************************************************)
(* The script from its first statement, main.py lines 1-28.                *)
(***************************************************************************)

\* The names the statement at line l looks up in the module namespace.
Uses(l) ==
  CASE l = "L1"  -> {}
    [] l = "L4"  -> {"ctypes"}
    [] l = "L7"  -> {"lib", "ctypes"}
    [] l = "L8"  -> {"lib", "ctypes", "VexyResult"}
    [] l = "L9"  -> {"lib", "ctypes", "VexyResult"}
    [] l = "L11" -> {"ctypes"}
    [] l = "L19" -> {}
    [] l = "L21" -> {"lib", "svg"}
    [] l = "L23" -> {"result"}
    [] l = "L24" -> {"result"}
    [] l = "L26" -> {"result"}
    [] l = "L28" -> {"lib", "result"}

\* The statement binds name n and control passes to line l.
Bind(c, n, l) ==
  /\ names' = [names EXCEPT ![c] = @ \cup n]
  /\ Goto(c, l)
  /\ UNCHANGED exc

\* lib.<sym>: the attribute lookup resolves the symbol in the library.
Lookup(c, sym, l) ==
  IF sym \in exports THEN Bind(c, {}, l)
  ELSE Raise(c, "AttributeError") /\ UNCHANGED <<pc, names>>

\* The declarations, lines 1-19.
Declare(c) ==
  /\ CASE pc[c] = "L1"  -> Bind(c, {"ctypes"}, "L4") /\ UNCHANGED input
       [] pc[c] = "L4"  ->
            /\ IF libPresent THEN Bind(c, {"lib"}, "L7")
               ELSE Raise(c, "OSError") /\ UNCHANGED <<pc, names>>
            /\ UNCHANGED input
       [] pc[c] = "L7"  ->
            Lookup(c, "vexy_svgo_optimize_default", "L8") /\ UNCHANGED input
       [] pc[c] = "L8"  ->
            Lookup(c, "vexy_svgo_optimize_default", "L9") /\ UNCHANGED input
       [] pc[c] = "L9"  ->
            Lookup(c, "vexy_svgo_free_result", "L11") /\ UNCHANGED input
       [] pc[c] = "L11" -> Bind(c, {"VexyResult"}, "L19") /\ UNCHANGED input
       [] pc[c] = "L19" ->
            /\ Bind(c, {"svg"}, "L21")
            /\ input' = [input EXCEPT ![c] = svg]
  /\ UNCHANGED <<result, stdout, log, mem, doubleFree, libPresent, exports>>

\* The interpreter executes the statement at pc[c]: a name the statement
\* looks up and the namespace does not bind raises NameError.
ExecStatement(c) ==
  /\ exc[c] = "none"
  /\ pc[c] # "end"
  /\ IF ~(Uses(pc[c]) \subseteq names[c])
     THEN /\ Raise(c, "NameError")
          /\ UNCHANGED <<pc, names, input, result, stdout, log, mem,
                         doubleFree, libPresent, exports>>
     ELSE CASE pc[c] = "L21" -> Call(c)
            [] pc[c] = "L23" -> Branch(c)
            [] pc[c] = "L24" -> PrintData(c)
            [] pc[c] = "L26" -> PrintError(c)
            [] pc[c] = "L28" -> FreeResult(c)
            [] OTHER -> Declare(c)

InitScript ==
  /\ pc = [c \in Callers |-> "L1"]
  /\ exc = [c \in Callers |-> "none"]
  /\ names = [c \in Callers |-> {}]
  /\ input = [c \in Callers |-> <<>>]
  /\ result = [c \in Callers |-> NULL]
  /\ stdout = [c \in Callers |-> <<>>]
  /\ log = [c \in Callers |-> <<>>]
  /\ mem = [a \in Addr |-> FreeCell]
  /\ doubleFree = FALSE
  /\ libPresent \in BOOLEAN
  /\ exports \in SUBSET Symbols

NextScript == \E c \in Callers : ExecStatement(c)

SpecScript == InitScript /\ [][NextScript]_vars

(***************************************************************************)
(* Properties.                                                             *)
(***************************************************************************)

\* Caller c came to the end of the script or was ended by an exception.
Terminated(c) == pc[c] = "end" \/ exc[c] # "none"

\* Caller c received a record and has not executed line 28.
Holds(c) == pc[c] \in {"L23", "L24", "L26", "L28"}

\* How often caller c passed its pointer to release.
Releases(c) == Cardinality({i \in DOMAIN log[c] : log[c][i].op = "release"})

\* The record caller c received.
Rec(c) == mem[result[c]]

\* The addresses the record of caller c occupies: itself and its buffers.
Footprint(c) == {result[c]} \cup ({Rec(c).data, Rec(c).error_message} \ {NULL})

Allocated == {a \in Addr : mem[a].kind # "free"}

C2_AccessOnlyWhileLive ==
  \A c \in Callers :
    /\ \A i \in DOMAIN log[c] :
         /\ log[c][i].live
         /\ log[c][i].op = "release" => i = Len(log[c])
    /\ Releases(c) <= 1
    /\ result[c] # NULL => (Live(result[c], c) <=> Releases(c) = 0)

C2_Witness ==
  \E c \in Callers :
    /\ pc[c] = "end"
    /\ Len(log[c]) = 3
    /\ log[c][2].op = "data"
    /\ log[c][3].op = "release"
    /\ ~Live(result[c], c)

C4_ExactlyOneOfDataAndMessage ==
  \A c \in Callers :
    /\ exc[c] # "AttributeError"
    /\ Holds(c) =>
         /\ Rec(c).error_code = 0 =>
              /\ Rec(c).data # NULL
              /\ mem[Rec(c).data].bytes # <<>>
              /\ Rec(c).error_message = NULL
         /\ Rec(c).error_code # 0 =>
              /\ Rec(c).error_message # NULL
              /\ mem[Rec(c).error_message].bytes # <<>>
              /\ mem[Rec(c).error_message].term
              /\ Rec(c).data = NULL
         /\ input[c] \in {<<>>, SvgUnclosed} => Rec(c).error_code # 0

C4_Witness ==
  \E c, d \in Callers :
    /\ pc[c] = "L28" /\ input[c] = SvgUnclosed
    /\ stdout[c] = <<[prefix |-> "Error: ",
                      text |-> ErrorMessage(InvalidInput)]>>
    /\ pc[d] = "L28" /\ input[d] = SvgEmbeddedNul
    /\ stdout[d] # <<>>

C6_NoLeakNoDoubleFree ==
  /\ ~doubleFree
  /\ Allocated = UNION {Footprint(c) : c \in {d \in Callers : Holds(d)}}
  /\ \A c \in Callers : Holds(c) => Cardinality(Footprint(c)) \in 1..3

C6_Witness ==
  /\ \A c \in Callers : pc[c] = "end"
  /\ \E c, d \in Callers : log[c][2].op = "data" /\ log[d][2].op = "error_message"
  /\ Allocated = {}

C8_OriginalSize54 ==
  \A c \in Callers :
    (Holds(c) /\ input[c] = svg) =>
      /\ Rec(c).error_code = 0
      /\ Rec(c).original_size = 54
      /\ Rec(c).optimized_size < Rec(c).original_size

\* C8 amended: the input of line 19 is 50 bytes long; for it the record has
\* error_code 0, original_size 50 and optimized_size below original_size.
C8_OriginalSize50 ==
  /\ Len(svg) = 50
  /\ \A c \in Callers :
       (Holds(c) /\ input[c] = svg) =>
         /\ Rec(c).error_code = 0
         /\ Rec(c).original_size = 50
         /\ Rec(c).optimized_size < Rec(c).original_size

C8_Witness ==
  \E c \in Callers :
    /\ pc[c] = "L23"
    /\ input[c] = svg
    /\ Rec(c).optimized_size = 43

C10_NamesBoundBeforeUse ==
  \A c \in Callers : exc[c] # "NameError"

=============================================================================
